---- MODULE Spec2Model ----
(***************************************************************************)
(* Calabria wildfire dashboard (app.py).                                   *)
(*                                                                         *)
(* The module-level script loads the fire records into the global frame    *)
(* gdf and derives year, month, season and size.  Two Dash callbacks,      *)
(* update_dashboard and circle_matrix, are registered on the year slider;  *)
(* each filters gdf by the inclusive year range it is handed and builds    *)
(* its aggregates.  Areas are modelled as whole hectares, a data frame as  *)
(* the sequence of its rows, a pandas Series as a sequence of              *)
(* [index, value] rows.  The figures are modelled by the frames they are   *)
(* built from (ts for the line chart, df for the map, grid for the circle  *)
(* matrix).                                                                *)
(***************************************************************************)
EXTENDS Integers, Sequences, FiniteSets, TLC

\* ---- bounds of the model ------------------------------------------------
MaxRecords == 2
MaxJuneRecords == 3
NumYears == 3

\* years, months and areas (ha) of the features in the shapefile
Years == 2020..(2019 + NumYears)
FeatureMonths == {1, 6}
FeatureAreas == {0, 50}
BoundaryAreas == {0, 100, 101}

\* ---- program constants --------------------------------------------------
SummerFirst == 5
SummerLast == 10
BigThreshold == 100
NumMonths == 12
RadiusFactor == 40
FallbackRadius == 1
FallbackColor == 0

\* gdf     the module-level frame of fire records
\* slider  min and max of the year RangeSlider built into app.layout
\* loaded  the frame as it was loaded (history variable, never assigned)
\* resp    the latest callback invocation: its input year_range, the locals it
\*         computed and whether it raised
VARIABLES gdf, slider, loaded, resp

vars == <<gdf, slider, loaded, resp>>

\* ---- load and prepare data (lines 15-26) ---------------------------------
SeasonExclusive(m) == IF SummerFirst < m /\ m < SummerLast THEN "Summer" ELSE "Winter"

Season(m) == IF SummerFirst <= m /\ m <= SummerLast THEN "Summer" ELSE "Winter"

Size(a) == IF a > BigThreshold THEN "Big" ELSE "Small"

Derive(f) ==
    [year |-> f.year, month |-> f.month, area_ha |-> f.area_ha,
     season |-> Season(f.month), size |-> Size(f.area_ha)]

Features(ys, ms, as) == [year : ys, month : ms, area_ha : as]

LoadFrames(ys, ms, as, n) ==
    UNION { [1..k -> {Derive(f) : f \in Features(ys, ms, as)}] : k \in 1..n }

\* ---- pandas helpers ------------------------------------------------------
RECURSIVE SeriesMin(_)
SeriesMin(s) ==
    IF Len(s) = 1 THEN s[1]
    ELSE LET m == SeriesMin(Tail(s)) IN IF s[1] <= m THEN s[1] ELSE m

RECURSIVE SeriesMaxOf(_)
SeriesMaxOf(s) ==
    IF Len(s) = 1 THEN s[1]
    ELSE LET m == SeriesMaxOf(Tail(s)) IN IF s[1] >= m THEN s[1] ELSE m

Column(frame, col) == [i \in DOMAIN frame |-> frame[i][col]]

\* gdf[(gdf["year"] >= year_range[0]) & (gdf["year"] <= year_range[1])]
RangeFilterStrict(g, yr) ==
    SelectSeq(g, LAMBDA r : r.year > yr[1] /\ r.year <= yr[2])

RangeFilter(g, yr) ==
    SelectSeq(g, LAMBDA r : r.year >= yr[1] /\ r.year <= yr[2])

\* ascending order of group keys / sort keys (tuples of integers)
KeyLessMonthFirst(k1, k2) ==
    LET n == Len(k1) IN
    \/ k1[n] < k2[n]
    \/ k1[n] = k2[n] /\ k1[1] < k2[1]

KeyLess(k1, k2) ==
    \E i \in DOMAIN k1 :
        /\ k1[i] < k2[i]
        /\ \A j \in 1..(i - 1) : k1[j] = k2[j]

\* the distinct values of a sequence, in order of first appearance
RECURSIVE Unique(_)
Unique(s) ==
    IF s = <<>> THEN <<>>
    ELSE LET init == Unique(SubSeq(s, 1, Len(s) - 1))
             last == s[Len(s)]
         IN  IF \E i \in DOMAIN init : init[i] = last THEN init
             ELSE Append(init, last)

RECURSIVE InsertRow(_, _)
InsertRow(p, s) ==
    IF s = <<>> THEN <<p>>
    ELSE IF ~KeyLess(s[1].key, p.key) THEN <<p>> \o s
    ELSE <<s[1]>> \o InsertRow(p, Tail(s))

RECURSIVE SortPairs(_)
SortPairs(s) ==
    IF s = <<>> THEN <<>> ELSE InsertRow(s[1], SortPairs(Tail(s)))

\* the key of a row: its values in the columns named by
RowKey(r, by) == [j \in DOMAIN by |-> r[by[j]]]

\* stable ascending sort of rows by the columns named by
SortRows(s, by) ==
    LET sorted == SortPairs([i \in DOMAIN s |-> [key |-> RowKey(s[i], by), row |-> s[i]]])
    IN  [i \in DOMAIN sorted |-> sorted[i].row]

\* df.groupby(by): the group keys, sorted (sort=True is the default)
GroupKeys(df, by) ==
    LET keys == Unique([i \in DOMAIN df |-> RowKey(df[i], by)])
        sorted == SortPairs([i \in DOMAIN keys |-> [key |-> keys[i], row |-> keys[i]]])
    IN  [i \in DOMAIN sorted |-> sorted[i].row]

GroupRows(df, by, k) == SelectSeq(df, LAMBDA r : RowKey(r, by) = k)

\* ("area_ha", "sum"); the sum of an empty column is 0
RECURSIVE AggSum(_)
AggSum(rows) ==
    IF rows = <<>> THEN 0 ELSE rows[1].area_ha + AggSum(Tail(rows))

AggNunique(rows) == Cardinality({rows[i].area_ha : i \in DOMAIN rows})

\* ("area_ha", "count"): area_ha is never null after dropna (line 20)
AggCount(rows) == Len(rows)

YearMonth == <<"year", "month">>

YearOnly == <<"year">>

month_order ==
    <<"Jan", "Feb", "Mar", "Apr", "May", "Jun", "Jul", "Aug", "Sep", "Oct", "Nov", "Dec">>

\* pd.to_datetime(ts["month"], format="%m").dt.strftime("%b")
MonthName(m) == month_order[m]

\* Series.max()
SeriesMaxFirst(s) == s[1].value

SeriesMax(s) == SeriesMaxOf(Column(s, "value"))

\* Series.idxmax(): the index label of the first occurrence of the maximum
IdxMaxLast(s) ==
    LET m == SeriesMaxOf(Column(s, "value"))
        i == CHOOSE i \in DOMAIN s :
                 s[i].value = m /\ \A j \in DOMAIN s : j > i => s[j].value # m
    IN  s[i].index

IdxMax(s) ==
    LET m == SeriesMaxOf(Column(s, "value"))
        i == CHOOSE i \in DOMAIN s :
                 s[i].value = m /\ \A j \in 1..(i - 1) : s[j].value # m
    IN  s[i].index

\* ---- update_dashboard (lines 66-118) --------------------------------------
TimeSeries(df) ==
    LET keys == GroupKeys(df, YearMonth)
        ts == [i \in DOMAIN keys |->
                 [year |-> keys[i][1], month |-> keys[i][2],
                  area |-> AggSum(GroupRows(df, YearMonth, keys[i])),
                  month_name |-> MonthName(keys[i][2])]]
    IN  SortRows(ts, <<"year", "month">>)

YearCounts(df) ==
    LET keys == GroupKeys(df, YearOnly)
    IN  [i \in DOMAIN keys |->
           [index |-> keys[i][1], value |-> Len(GroupRows(df, YearOnly, keys[i]))]]

AreaSums(df) ==
    LET keys == GroupKeys(df, YearOnly)
    IN  [i \in DOMAIN keys |->
           [index |-> keys[i][1], value |-> AggSum(GroupRows(df, YearOnly, keys[i]))]]

UpdateDashboard(g, yr) ==
    LET df == RangeFilter(g, yr)
        computed ==
            [callback |-> "update_dashboard", year_range |-> yr, df |-> df,
             ts |-> TimeSeries(df),
             total_fires |-> Len(df), total_area |-> AggSum(df)]
        year_counts == YearCounts(df)
        area_sums == AreaSums(df)
    IN  IF year_counts = <<>>
        THEN \* idxmax of an empty Series raises ValueError (line 106)
             computed @@ [raised |-> "ValueError"]
        ELSE computed @@
             [raised |-> "none",
              peak_year_by_fires |-> IdxMax(year_counts),
              peak_fires_count |-> SeriesMax(year_counts),
              peak_year_by_area |-> IdxMax(area_sums),
              peak_area_value |-> SeriesMax(area_sums)]

\* ---- circle_matrix (lines 121-146) ----------------------------------------
PyRangeInclusive(lo, hi) == [i \in 1..(hi - lo + 1) |-> lo + i - 1]

\* list(range(lo, hi))
PyRange(lo, hi) == [i \in 1..(hi - lo) |-> lo + i - 1]

\* pd.merge(all_years, all_months, on="key").drop("key", axis=1)
RECURSIVE CrossMerge(_, _)
CrossMerge(all_years, all_months) ==
    IF all_years = <<>> THEN <<>>
    ELSE [j \in DOMAIN all_months |-> [year |-> all_years[1], month |-> all_months[j]]]
             \o CrossMerge(Tail(all_years), all_months)

Grouped(df) ==
    LET keys == GroupKeys(df, YearMonth)
    IN  [i \in DOMAIN keys |->
           [year |-> keys[i][1], month |-> keys[i][2],
            count |-> AggCount(GroupRows(df, YearMonth, keys[i])),
            area |-> AggSum(GroupRows(df, YearMonth, keys[i]))]]

\* pd.merge(full_grid, grouped, on=["year", "month"], how="left").fillna(0)
RECURSIVE LeftMergeFillna(_, _)
LeftMergeFillna(full_grid, grouped) ==
    IF full_grid = <<>> THEN <<>>
    ELSE LET cell == full_grid[1]
             matches == SelectSeq(grouped,
                 LAMBDA row : row.year = cell.year /\ row.month = cell.month)
         IN  (IF matches = <<>>
              THEN <<[year |-> cell.year, month |-> cell.month, count |-> 0, area |-> 0]>>
              ELSE matches)
             \o LeftMergeFillna(Tail(full_grid), grouped)

\* floor of the square root of x, searched in lo..hi
RECURSIVE ISqrtIn(_, _, _)
ISqrtIn(x, lo, hi) ==
    IF lo >= hi THEN lo
    ELSE LET mid == (lo + hi + 1) \div 2
         IN  IF mid * mid <= x THEN ISqrtIn(x, mid, hi) ELSE ISqrtIn(x, lo, mid - 1)

ISqrt(x) == IF x = 0 THEN 0 ELSE ISqrtIn(x, 1, 10 * RadiusFactor)

\* np.sqrt(area / max_area) * 40 if max_area else 1, in tenths (rounded down)
Radius(area, max_area) ==
    IF max_area # 0
    THEN ISqrt((area * 100 * RadiusFactor * RadiusFactor) \div max_area)
    ELSE 10 * FallbackRadius

ColorScaleUnguarded(count, max_count) == [num |-> count, den |-> max_count]

\* count / max_count if max_count else 0, as a fraction
ColorScale(count, max_count) ==
    IF max_count # 0 THEN [num |-> count, den |-> max_count]
    ELSE [num |-> FallbackColor, den |-> 1]

CircleMatrix(g, yr) ==
    LET df == RangeFilter(g, yr)
        all_months == PyRange(1, NumMonths + 1)
        all_years == PyRange(yr[1], yr[2] + 1)
        full_grid == CrossMerge(all_years, all_months)
        grid == LeftMergeFillna(full_grid, Grouped(df))
        max_area == SeriesMaxOf(Column(grid, "area"))
        max_count == SeriesMaxOf(Column(grid, "count"))
    IN  [callback |-> "circle_matrix", year_range |-> yr, df |-> df,
         max_area |-> max_area, max_count |-> max_count, raised |-> "none",
         grid |-> [i \in DOMAIN grid |->
                     [year |-> grid[i].year, month |-> grid[i].month,
                      count |-> grid[i].count, area |-> grid[i].area,
                      radius |-> Radius(grid[i].area, max_area),
                      color_scale |-> ColorScale(grid[i].count, max_count)]]]

\* ---- the application ------------------------------------------------------
\* RangeSlider(min=gdf["year"].min(), max=gdf["year"].max(), step=1)
RangeSlider(g) ==
    [min |-> SeriesMin(Column(g, "year")), max |-> SeriesMaxOf(Column(g, "year"))]

SliderValues == {yr \in (slider.min..slider.max) \X (slider.min..slider.max) : yr[1] <= yr[2]}

InitFrom(frames) ==
    /\ gdf \in frames
    /\ slider = RangeSlider(gdf)
    /\ loaded = gdf
    /\ resp = [callback |-> "none"]

\* up to MaxRecords fires in January or June
Init == InitFrom(LoadFrames(Years, FeatureMonths, FeatureAreas, MaxRecords))

\* up to MaxJuneRecords fires, all of them in June
InitJune == InitFrom(LoadFrames(Years, {6}, FeatureAreas, MaxJuneRecords))

\* one fire, of any month, with an area at or around the size threshold
InitDerive == InitFrom(LoadFrames(Years, 1..NumMonths, BoundaryAreas, 1))

update_dashboard_inplace ==
    \E yr \in SliderValues :
        /\ resp' = UpdateDashboard(gdf, yr)
        /\ gdf' = RangeFilter(gdf, yr)
        /\ UNCHANGED <<slider, loaded>>

update_dashboard ==
    \E yr \in SliderValues :
        /\ resp' = UpdateDashboard(gdf, yr)
        /\ UNCHANGED <<gdf, slider, loaded>>

circle_matrix ==
    \E yr \in SliderValues :
        /\ resp' = CircleMatrix(gdf, yr)
        /\ UNCHANGED <<gdf, slider, loaded>>

Next == update_dashboard \/ circle_matrix

Spec == Init /\ [][Next]_vars

SpecJune == InitJune /\ [][Next]_vars

SpecDerive == InitDerive /\ [][Next]_vars

\* ---- reference values, computed from gdf record by record -----------------
InRange(r, yr) == yr[1] <= r.year /\ r.year <= yr[2]

Picked(yr) == {i \in DOMAIN gdf : InRange(gdf[i], yr)}

PickedYM(yr, y, m) == {i \in Picked(yr) : gdf[i].year = y /\ gdf[i].month = m}

PickedY(yr, y) == {i \in Picked(yr) : gdf[i].year = y}

RECURSIVE AreaOf(_)
AreaOf(S) ==
    IF S = {} THEN 0
    ELSE LET i == CHOOSE i \in S : TRUE IN gdf[i].area_ha + AreaOf(S \ {i})

Occurrences(s, r) == Cardinality({i \in DOMAIN s : s[i] = r})

YearsPresent(yr) == {gdf[i].year : i \in Picked(yr)}

MaxOfSet(S) == CHOOSE v \in S : \A w \in S : w <= v

MinOfSet(S) == CHOOSE v \in S : \A w \in S : v <= w

MonthIndex(name) == CHOOSE k \in DOMAIN month_order : month_order[k] = name

IsDashboard == resp.callback = "update_dashboard"

IsMatrix == resp.callback = "circle_matrix"

\* C1: for a year range holding no record neither callback raises;
\* update_dashboard yields total_fires = 0 and total_area = 0, and circle_matrix
\* yields a grid of all-zero cells that all carry the fallback radius.
EmptyRangeHandled ==
    (resp.callback # "none" /\ Picked(resp.year_range) = {}) =>
        /\ resp.raised = "none"
        /\ IsDashboard => resp.total_fires = 0 /\ resp.total_area = 0
        /\ IsMatrix => \A i \in DOMAIN resp.grid :
               /\ resp.grid[i].count = 0
               /\ resp.grid[i].area = 0
               /\ resp.grid[i].radius = 10 * FallbackRadius

\* C2: the frame df either callback works on holds exactly the records of
\* gdf whose year lies in the inclusive range: every row of df is in range and
\* is a record of gdf, and every in-range record of gdf is in df as often as in gdf.
RangeFilterExact ==
    resp.callback # "none" =>
        /\ \A i \in DOMAIN resp.df :
               /\ InRange(resp.df[i], resp.year_range)
               /\ \E j \in DOMAIN gdf : gdf[j] = resp.df[i]
        /\ \A j \in DOMAIN gdf :
               InRange(gdf[j], resp.year_range) =>
                   Occurrences(resp.df, gdf[j]) = Occurrences(gdf, gdf[j])

RangeFilterWitness ==
    /\ resp.callback # "none"
    /\ resp.df # <<>>
    /\ Len(resp.df) < Len(gdf)

\* C3: the grid of circle_matrix for the range [a,b] has (b-a+1)*12 cells,
\* exactly one for each year in a..b and month in 1..12.
GridComplete ==
    IsMatrix =>
        LET a == resp.year_range[1]
            b == resp.year_range[2]
        IN  /\ Len(resp.grid) = (b - a + 1) * 12
            /\ \A y \in a..b, m \in 1..12 :
                   Cardinality({i \in DOMAIN resp.grid :
                       resp.grid[i].year = y /\ resp.grid[i].month = m}) = 1

GridCompleteWitness ==
    /\ IsMatrix
    /\ resp.year_range[1] < resp.year_range[2]
    /\ resp.df # <<>>

\* C4: each grid cell (year, month) holds the number of filtered records of
\* that year and month and the sum of their area_ha, 0 and 0 when there is none.
GridCellValues ==
    IsMatrix =>
        \A i \in DOMAIN resp.grid :
            LET S == PickedYM(resp.year_range, resp.grid[i].year, resp.grid[i].month)
            IN  /\ resp.grid[i].count = Cardinality(S)
                /\ resp.grid[i].area = AreaOf(S)

GridCellValuesWitness ==
    /\ IsMatrix
    /\ \E i \in DOMAIN resp.grid : resp.grid[i].count = 2 /\ resp.grid[i].area = 100
    /\ \E i \in DOMAIN resp.grid : resp.grid[i].count = 0 /\ resp.grid[i].area = 0

\* C5: in every grid cell the intensity count/max_count is a fraction with a
\* non-zero denominator and 0 <= intensity <= 1, and radius >= 0; when every
\* cell's area is 0 every radius is the fallback 1 (10 tenths), and when every
\* cell's count is 0 every intensity is 0.
NormalizationBounds ==
    IsMatrix =>
        LET grid == resp.grid IN
        /\ \A i \in DOMAIN grid :
               /\ grid[i].color_scale.den > 0
               /\ 0 <= grid[i].color_scale.num
               /\ grid[i].color_scale.num <= grid[i].color_scale.den
               /\ grid[i].radius >= 0
        /\ (\A j \in DOMAIN grid : grid[j].area = 0) =>
               \A i \in DOMAIN grid : grid[i].radius = 10 * FallbackRadius
        /\ (\A j \in DOMAIN grid : grid[j].count = 0) =>
               \A i \in DOMAIN grid : grid[i].color_scale.num = 0

NormalizationWitness ==
    /\ IsMatrix
    /\ \E i \in DOMAIN resp.grid :
           /\ 0 < resp.grid[i].color_scale.num
           /\ resp.grid[i].color_scale.num < resp.grid[i].color_scale.den
           /\ 0 < resp.grid[i].radius
           /\ resp.grid[i].radius < 10 * RadiusFactor

\* C6: total_fires is the number of filtered records and total_area the sum of
\* their area_ha; when the filtered set is not empty the callback returns, and
\* the count reported with the peak year by fires is the largest per-year
\* record count and the value reported with the peak year by area is the
\* largest per-year area sum.
SummaryConsistent ==
    IsDashboard =>
        LET yr == resp.year_range
            S == Picked(yr)
        IN  /\ resp.total_fires = Cardinality(S)
            /\ resp.total_area = AreaOf(S)
            /\ S # {} =>
                   /\ resp.raised = "none"
                   /\ resp.peak_fires_count =
                          MaxOfSet({Cardinality(PickedY(yr, y)) : y \in YearsPresent(yr)})
                   /\ resp.peak_area_value =
                          MaxOfSet({AreaOf(PickedY(yr, y)) : y \in YearsPresent(yr)})

SummaryWitness ==
    /\ IsDashboard
    /\ resp.raised = "none"
    /\ resp.peak_fires_count = 2
    /\ resp.total_fires = 3
    /\ resp.peak_area_value < resp.total_area
    /\ gdf[1].year # resp.peak_year_by_fires

\* C7: when several years of the filtered set share the largest per-year
\* count (the largest per-year area sum), the peak year by fires (by area) is
\* the smallest of them, whatever the order of the records in gdf.
PeakTieBreak ==
    (IsDashboard /\ resp.raised = "none") =>
        LET yr == resp.year_range
            present == YearsPresent(yr)
            maxCount == MaxOfSet({Cardinality(PickedY(yr, y)) : y \in present})
            maxArea == MaxOfSet({AreaOf(PickedY(yr, y)) : y \in present})
            byCount == {y \in present : Cardinality(PickedY(yr, y)) = maxCount}
            byArea == {y \in present : AreaOf(PickedY(yr, y)) = maxArea}
        IN  /\ Cardinality(byCount) >= 2 => resp.peak_year_by_fires = MinOfSet(byCount)
            /\ Cardinality(byArea) >= 2 => resp.peak_year_by_area = MinOfSet(byArea)

PeakTieBreakWitness ==
    /\ IsDashboard
    /\ resp.raised = "none"
    /\ Len(gdf) = 2
    /\ gdf[1].year > gdf[2].year
    /\ gdf[1].area_ha = gdf[2].area_ha
    /\ resp.total_fires = 2
    /\ resp.peak_year_by_fires = gdf[2].year
    /\ resp.peak_year_by_area = gdf[2].year

\* C8: ts has exactly one row for each (year, month) with a filtered record
\* and none for the others, its area is the sum of area_ha of those records,
\* and the rows ascend by year and, within a year, by month in calendar order
\* of the month names.
TimeSeriesSorted ==
    IsDashboard =>
        LET yr == resp.year_range
            ts == resp.ts
        IN  /\ \A y \in Years, m \in 1..12 :
                   Cardinality({i \in DOMAIN ts : ts[i].year = y /\ ts[i].month = m})
                       = IF PickedYM(yr, y, m) # {} THEN 1 ELSE 0
            /\ \A i \in DOMAIN ts :
                   ts[i].area = AreaOf(PickedYM(yr, ts[i].year, ts[i].month))
            /\ \A i, j \in DOMAIN ts :
                   i < j =>
                       \/ ts[i].year < ts[j].year
                       \/ /\ ts[i].year = ts[j].year
                          /\ MonthIndex(ts[i].month_name) < MonthIndex(ts[j].month_name)

TimeSeriesWitness ==
    /\ IsDashboard
    /\ Len(resp.ts) = 2
    /\ Len(gdf) = 2
    /\ gdf[1].year = gdf[2].year
    /\ gdf[1].month > gdf[2].month
    /\ resp.ts[1].month_name = "Jan"
    /\ resp.ts[2].month_name = "Jun"

\* C9: every record of gdf has season Summer exactly when its month is in
\* 5..10 and Winter otherwise, and size Big exactly when its area_ha exceeds
\* 100 and Small otherwise.
SeasonSizeDerivation ==
    \A i \in DOMAIN gdf :
        /\ gdf[i].season = (IF gdf[i].month \in 5..10 THEN "Summer" ELSE "Winter")
        /\ gdf[i].size = (IF gdf[i].area_ha > 100 THEN "Big" ELSE "Small")

SeasonSizeWitness ==
    /\ resp.callback # "none"
    /\ gdf[1].month = 10
    /\ gdf[1].season = "Summer"
    /\ gdf[1].area_ha = 100
    /\ gdf[1].size = "Small"

\* C10: after any sequence of callback invocations gdf is the dataset that
\* was loaded, and the latest response is the one the callback computes for
\* its year range from the loaded dataset, whatever was invoked before.
DatasetImmutable ==
    /\ gdf = loaded
    /\ IsDashboard => resp = UpdateDashboard(loaded, resp.year_range)
    /\ IsMatrix => resp = CircleMatrix(loaded, resp.year_range)

DatasetImmutableWitness ==
    /\ resp.callback # "none"
    /\ resp.year_range # <<slider.min, slider.max>>
    /\ resp.df # <<>>
    /\ gdf = loaded

====
